---- MODULE Spec2Model ----
(***************************************************************************)
(* Model of pv_calculator.py: a Streamlit script that is executed from top *)
(* to bottom every time one of its ten number_input widgets changes.       *)
(*                                                                         *)
(* Numbers.  The script computes with floating point numbers; the model    *)
(* computes with scaled integers:                                          *)
(*   lengths, widths, heights, street widths   whole metres                *)
(*   angles (the thetas)                       1/1000 degree               *)
(*   percentages and the yield density         1/100000                    *)
(*   pv_roof_area                              1/10 square metre           *)
(*   block coordinates (x, y)                  1/2 metre                   *)
(* A product or quotient that does not fall on the grid is rounded to the  *)
(* nearest grid point.  The rounding of the last bit of a double is below  *)
(* the resolution of the model.                                            *)
(*                                                                         *)
(* Line 125 of the script writes its product with the sign U+00D7 and      *)
(* line 234 does not close its string; the model reads line 125 as the     *)
(* multiplication it denotes and leaves the display code (line 128 on,     *)
(* but for the placement of the blocks) out.                               *)
(***************************************************************************)
EXTENDS Integers, Sequences, FiniteSets

VARIABLES inp, res

vars == <<inp, res>>

\* ------------------------------------------------------------------ bounds

\* The tallest obstruction the model tries stands MaxRise metres above 12 m.
MaxRise == 13
\* The largest number of floors the model tries.
MaxFloors == 12

\* ------------------------------------------------------- widget domains

Lengths == {1, 20}
Widths == {1, 15}
Floors == {1, 3, 4, MaxFloors}
BuildingHeights == {6, 12}
HSouth == {5, 12, 15, 12 + MaxRise}
WSouth == {-1, 0, 1, 10, 12}
HEast == {10, 12 + MaxRise}
WEast == {1, 12}
HWest == {10, 12 + MaxRise}
WWest == {0, 1, 12}

\* The widgets' value= arguments: the snapshot of the first run.
Defaults ==
    [length |-> 20, width |-> 15, num_floors |-> 4, building_height |-> 12,
     h_south |-> 15, w_south |-> 10, h_east |-> 10, w_east |-> 12,
     h_west |-> 10, w_west |-> 12]

\* ------------------------------------------------------------ arithmetic

Abs(a) == IF a < 0 THEN -a ELSE a

\* a / b rounded to the nearest integer (b > 0).
RoundDiv(a, b) == (a + b \div 2) \div b

\* c * t / 1000 rounded: a coefficient in 1/100000 times an angle in 1/1000
\* degree, in 1/100000.
MulMilli(c, t) == c * (t \div 1000) + RoundDiv(c * (t % 1000), 1000)

\* c * x / 100000 rounded: a coefficient in 1/100000 times a value in
\* 1/100000, in 1/100000.  The product is formed in three parts to stay
\* within TLC's integers.
FxMul(c, x) ==
    LET xh == x \div 100000
        xl == x % 100000
        xm == xl \div 100
        xn == xl % 100
        q1 == (xm * c) \div 1000
        r1 == (xm * c) % 1000
    IN  xh * c + q1 + RoundDiv(r1 * 100 + xn * c, 100000)

\* p / q in 1/100000, rounded (p >= 0, q > 0).
RatToFx(p, q) ==
    LET r0 == p % q
        d1 == (r0 * 1000) \div q
        r1 == (r0 * 1000) % q
    IN  (p \div q) * 100000 + d1 * 100 + RoundDiv(r1 * 100, q)

\* tan(k degrees) * 10^6 for k = 0 .. 45, at index k + 1.
TanTable ==
    <<0, 17455, 34921, 52408, 69927, 87489, 105104, 122785, 140541, 158384,
      176327, 194380, 212557, 230868, 249328, 267949, 286745, 305731, 324920,
      344328, 363970, 383864, 404026, 424475, 445229, 466308, 487733, 509525,
      531709, 554309, 577350, 600861, 624869, 649408, 674509, 700208, 726543,
      753554, 781286, 809784, 839100, 869287, 900404, 932515, 965689,
      1000000>>

\* arctan(n / m) in 1/1000 degree for 0 <= n <= m, m > 0: the whole degrees
\* k from the table, the rest from
\* arctan(x) - arctan(c) = arctan((x - c) / (1 + x * c)), which is below one
\* degree, where the arc is its tangent to within 1/10000 degree.
ArctanOctant(n, m) ==
    LET k == CHOOSE j \in 0..45 :
                 /\ TanTable[j + 1] * m <= n * 1000000
                 /\ (j = 45 \/ TanTable[j + 2] * m > n * 1000000)
        num == n * 1000000 - TanTable[k + 1] * m
        den == m * 1000000 + n * TanTable[k + 1]
        g == den \div 2000000 + 1
    IN  k * 1000 + RoundDiv((num \div g) * 57296, den \div g)

\* np.degrees(np.arctan(y / x)) in 1/1000 degree, x # 0.
arctan_degrees(y, x) ==
    LET n == Abs(y)
        m == Abs(x)
        a == IF n <= m THEN ArctanOctant(n, m) ELSE 90000 - ArctanOctant(m, n)
    IN  IF (y < 0) = (x < 0) THEN a ELSE -a

\* ------------------------------------------------------ helper functions

ZeroDivisionError == "ZeroDivisionError"

\* height_diff / street_w raises ZeroDivisionError when street_w is 0.0.
Raises(opposing_h, building_h, street_w) == street_w = 0

\* Slips of calculate_theta: the building's height not subtracted; the
\* clamp left out; the quotient turned over.
calculate_theta_NoSubtract(opposing_h, building_h, street_w) ==
    LET height_diff == opposing_h
        theta_deg == arctan_degrees(height_diff, street_w)
    IN  IF theta_deg < 0 THEN 0 ELSE theta_deg

calculate_theta_NoClamp(opposing_h, building_h, street_w) ==
    LET height_diff == opposing_h - building_h
    IN  arctan_degrees(height_diff, street_w)

calculate_theta_Inverted(opposing_h, building_h, street_w) ==
    LET height_diff == opposing_h - building_h
        theta_deg == arctan_degrees(street_w, height_diff)
    IN  IF theta_deg < 0 THEN 0 ELSE theta_deg

calculate_theta(opposing_h, building_h, street_w) ==
    LET height_diff == opposing_h - building_h
        theta_deg == arctan_degrees(height_diff, street_w)
    IN  IF theta_deg < 0 THEN 0 ELSE theta_deg

\* The eight vertices of the block.  x_center and y_center are in half
\* metres, dx, dy, dz and z_base in metres; x and y are in half metres.
make_cube_trace(x_center, y_center, z_base, dx, dy, dz, color, name) ==
    [x |-> <<x_center - dx, x_center + dx, x_center + dx, x_center - dx,
             x_center - dx, x_center + dx, x_center + dx, x_center - dx>>,
     y |-> <<y_center - dy, y_center - dy, y_center + dy, y_center + dy,
             y_center - dy, y_center - dy, y_center + dy, y_center + dy>>,
     z |-> <<z_base, z_base, z_base, z_base,
             z_base + dz, z_base + dz, z_base + dz, z_base + dz>>,
     color |-> color,
     name |-> name]

\* ------------------------------------------------------ calculation logic

roof_area(s) == s.length * s.width

\* A slip of total_floor_area: the width left out.
total_floor_area_NoWidth(s) == s.length * s.num_floors

total_floor_area(s) == s.length * s.width * s.num_floors

rtfa_percent(s) == RatToFx(roof_area(s) * 100, total_floor_area(s))

theta_south(s) == calculate_theta(s.h_south, s.building_height, s.w_south)

theta_east(s) == calculate_theta(s.h_east, s.building_height, s.w_east)

theta_west(s) == calculate_theta(s.h_west, s.building_height, s.w_west)

\* A slip of sunhours_percent: the east term added.
sunhours_percent_PlusEast(t_south, t_east, t_west) ==
    9157300
    - MulMilli(16264, t_south)
    + MulMilli(25959, t_east)
    - MulMilli(16825, t_west)

sunhours_percent(t_south, t_east, t_west) ==
    9157300
    - MulMilli(16264, t_south)
    - MulMilli(25959, t_east)
    - MulMilli(16825, t_west)

\* A slip of pv_utilization: the unshaded 91.573 in place of the run's
\* sunhours_percent.
pv_utilization_Unshaded(sunhours, rtfa) ==
    -3751000 + FxMul(50750, 9157300) + FxMul(161100, rtfa)

pv_utilization(sunhours, rtfa) ==
    -3751000 + FxMul(50750, sunhours) + FxMul(161100, rtfa)

pv_yield_density(t_south, sunhours) ==
    12007000 - MulMilli(29100, t_south) + FxMul(168000, sunhours)

\* A slip of pv_roof_area: clamped at 0.
pv_roof_area_Clamped(s) ==
    IF roof_area(s) < 32 THEN 0 ELSE (roof_area(s) - 32) * 8

pv_roof_area(s) == (roof_area(s) - 32) * 8

\* ------------------------------------------------------- 3D plotting logic

obs_depth == 10

main_bldg(s) ==
    make_cube_trace(0, 0, 0, s.width, s.length, s.building_height,
                    "#3366CC", "My Building")

y_south_pos(s) == -(s.length + 2 * s.w_south + obs_depth)

south_bldg(s) ==
    make_cube_trace(0, y_south_pos(s), 0, s.width, obs_depth, s.h_south,
                    "#A9A9A9", "South Obstruction")

\* A slip of x_east_pos: the west street's width.
x_east_pos_WestWidth(s) == s.width + 2 * s.w_west + obs_depth

x_east_pos(s) == s.width + 2 * s.w_east + obs_depth

east_bldg(s) ==
    make_cube_trace(x_east_pos(s), 0, 0, obs_depth, s.length, s.h_east,
                    "#A9A9A9", "East Obstruction")

x_west_pos(s) == -(s.width + 2 * s.w_west + obs_depth)

west_bldg(s) ==
    make_cube_trace(x_west_pos(s), 0, 0, obs_depth, s.length, s.h_west,
                    "#A9A9A9", "West Obstruction")

\* ---------------------------------------------------------------- one run

\* One execution of the script on the snapshot s.  The three calls of
\* calculate_theta come first of all that depends on the street widths: a
\* run that raises shows none of its values.
RunScript(s) ==
    IF \/ Raises(s.h_south, s.building_height, s.w_south)
       \/ Raises(s.h_east, s.building_height, s.w_east)
       \/ Raises(s.h_west, s.building_height, s.w_west)
    THEN [status |-> ZeroDivisionError]
    ELSE LET ts == theta_south(s)
             te == theta_east(s)
             tw == theta_west(s)
             rt == rtfa_percent(s)
             sh == sunhours_percent(ts, te, tw)
         IN  [status |-> "ok",
              roof_area |-> roof_area(s),
              total_floor_area |-> total_floor_area(s),
              rtfa_percent |-> rt,
              theta_south |-> ts,
              theta_east |-> te,
              theta_west |-> tw,
              sunhours_percent |-> sh,
              pv_utilization |-> pv_utilization(sh, rt),
              pv_yield_density |-> pv_yield_density(ts, sh),
              pv_roof_area |-> pv_roof_area(s),
              main_bldg |-> main_bldg(s),
              south_bldg |-> south_bldg(s),
              east_bldg |-> east_bldg(s),
              west_bldg |-> west_bldg(s)]

\* ----------------------------------------------------------------- system

Init ==
    /\ inp = Defaults
    /\ res = RunScript(Defaults)

\* The user changes one widget; Streamlit runs the whole script again on
\* the new snapshot.
SetLength ==
    \E v \in Lengths \ {inp.length} :
        /\ inp' = [inp EXCEPT !.length = v]
        /\ res' = RunScript(inp')

SetWidth ==
    \E v \in Widths \ {inp.width} :
        /\ inp' = [inp EXCEPT !.width = v]
        /\ res' = RunScript(inp')

SetNumFloors ==
    \E v \in Floors \ {inp.num_floors} :
        /\ inp' = [inp EXCEPT !.num_floors = v]
        /\ res' = RunScript(inp')

SetBuildingHeight ==
    \E v \in BuildingHeights \ {inp.building_height} :
        /\ inp' = [inp EXCEPT !.building_height = v]
        /\ res' = RunScript(inp')

SetHSouth ==
    \E v \in HSouth \ {inp.h_south} :
        /\ inp' = [inp EXCEPT !.h_south = v]
        /\ res' = RunScript(inp')

\* A slip of SetWSouth: the run reads the snapshot of before the change.
SetWSouth_Stale ==
    \E v \in WSouth \ {inp.w_south} :
        /\ inp' = [inp EXCEPT !.w_south = v]
        /\ res' = RunScript(inp)

SetWSouth ==
    \E v \in WSouth \ {inp.w_south} :
        /\ inp' = [inp EXCEPT !.w_south = v]
        /\ res' = RunScript(inp')

SetHEast ==
    \E v \in HEast \ {inp.h_east} :
        /\ inp' = [inp EXCEPT !.h_east = v]
        /\ res' = RunScript(inp')

SetWEast ==
    \E v \in WEast \ {inp.w_east} :
        /\ inp' = [inp EXCEPT !.w_east = v]
        /\ res' = RunScript(inp')

SetHWest ==
    \E v \in HWest \ {inp.h_west} :
        /\ inp' = [inp EXCEPT !.h_west = v]
        /\ res' = RunScript(inp')

SetWWest ==
    \E v \in WWest \ {inp.w_west} :
        /\ inp' = [inp EXCEPT !.w_west = v]
        /\ res' = RunScript(inp')

Next ==
    \/ SetLength
    \/ SetWidth
    \/ SetNumFloors
    \/ SetBuildingHeight
    \/ SetHSouth
    \/ SetWSouth
    \/ SetHEast
    \/ SetWEast
    \/ SetHWest
    \/ SetWWest

Spec == Init /\ [][Next]_vars

Ok == res.status = "ok"

\* ------------------------------------------------------------ properties

SeqMin(q) == CHOOSE v \in {q[i] : i \in 1..Len(q)} :
                 \A i \in 1..Len(q) : v <= q[i]

SeqMax(q) == CHOOSE v \in {q[i] : i \in 1..Len(q)} :
                 \A i \in 1..Len(q) : v >= q[i]

\* |a - b| <= tol
Near(a, b, tol) == Abs(a - b) <= tol

\* C1 (as claimed): whenever one of the three street widths (or length,
\* width, num_floors) is <= 0, the run ends in an InvalidArgument error and
\* produces no value.  The script has no such check.
C1_NonPositiveRejected ==
    (\/ inp.length <= 0 \/ inp.width <= 0 \/ inp.num_floors <= 0
     \/ inp.w_south <= 0 \/ inp.w_east <= 0 \/ inp.w_west <= 0)
    => res.status = "InvalidArgument"

\* C2: in a run that computes its angles, an orientation whose obstruction is
\* no taller than the building, across a street of positive width, has
\* theta exactly 0; when that is so for all three, sunhours_percent is
\* exactly 91.573.
C2_NoTallerMeansZero ==
    Ok =>
        /\ (inp.h_south <= inp.building_height /\ inp.w_south > 0)
               => res.theta_south = 0
        /\ (inp.h_east <= inp.building_height /\ inp.w_east > 0)
               => res.theta_east = 0
        /\ (inp.h_west <= inp.building_height /\ inp.w_west > 0)
               => res.theta_west = 0
        /\ (/\ inp.h_south <= inp.building_height /\ inp.w_south > 0
            /\ inp.h_east <= inp.building_height /\ inp.w_east > 0
            /\ inp.h_west <= inp.building_height /\ inp.w_west > 0)
               => res.sunhours_percent = 9157300

\* Reached: south level with the roof, east and west lower, all thetas 0.
C2_Witness ==
    /\ Ok
    /\ inp.h_south = inp.building_height /\ inp.w_south > 0
    /\ inp.h_east < inp.building_height /\ inp.w_east > 0
    /\ inp.h_west < inp.building_height /\ inp.w_west > 0
    /\ res.theta_south = 0 /\ res.theta_east = 0 /\ res.theta_west = 0
    /\ res.sunhours_percent = 9157300

\* The angle before the clamp, of an orientation.
RawSouth == arctan_degrees(inp.h_south - inp.building_height, inp.w_south)
RawEast == arctan_degrees(inp.h_east - inp.building_height, inp.w_east)
RawWest == arctan_degrees(inp.h_west - inp.building_height, inp.w_west)

Clamped(raw, theta) ==
    /\ theta >= 0
    /\ raw < 0 => theta = 0
    /\ raw >= 0 => theta = raw

\* C3: every theta a run computes is >= 0: it is 0 where the angle before
\* the clamp is negative and is that angle where it is not.
C3_ThetaNeverNegative ==
    Ok =>
        /\ Clamped(RawSouth, res.theta_south)
        /\ Clamped(RawEast, res.theta_east)
        /\ Clamped(RawWest, res.theta_west)

\* Reached: south clamped from a negative angle while east keeps a positive
\* one.
C3_Witness ==
    /\ Ok
    /\ RawSouth < 0 /\ res.theta_south = 0
    /\ RawEast > 0 /\ res.theta_east = RawEast

BothOk == res.status = "ok" /\ res'.status = "ok"

\* C5: from one run to the next, if only an obstruction's height or only
\* the building's height changed, so that the height difference grew, theta
\* did not fall (street width > 0); if only a street width grew, both widths
\* positive and the height difference positive, theta did not rise.
C5_MonotoneStep ==
    /\ (/\ BothOk
        /\ inp' = [inp EXCEPT !.h_south = inp'.h_south]
        /\ inp'.h_south >= inp.h_south /\ inp.w_south > 0)
           => res'.theta_south >= res.theta_south
    /\ (/\ BothOk
        /\ inp' = [inp EXCEPT !.h_east = inp'.h_east]
        /\ inp'.h_east >= inp.h_east /\ inp.w_east > 0)
           => res'.theta_east >= res.theta_east
    /\ (/\ BothOk
        /\ inp' = [inp EXCEPT !.h_west = inp'.h_west]
        /\ inp'.h_west >= inp.h_west /\ inp.w_west > 0)
           => res'.theta_west >= res.theta_west
    /\ (/\ BothOk
        /\ inp' = [inp EXCEPT !.building_height = inp'.building_height]
        /\ inp'.building_height <= inp.building_height)
           => /\ inp.w_south > 0 => res'.theta_south >= res.theta_south
              /\ inp.w_east > 0 => res'.theta_east >= res.theta_east
              /\ inp.w_west > 0 => res'.theta_west >= res.theta_west
    /\ (/\ BothOk
        /\ inp' = [inp EXCEPT !.w_south = inp'.w_south]
        /\ inp.h_south > inp.building_height
        /\ inp.w_south > 0 /\ inp'.w_south >= inp.w_south)
           => res'.theta_south <= res.theta_south
    /\ (/\ BothOk
        /\ inp' = [inp EXCEPT !.w_east = inp'.w_east]
        /\ inp.h_east > inp.building_height
        /\ inp.w_east > 0 /\ inp'.w_east >= inp.w_east)
           => res'.theta_east <= res.theta_east
    /\ (/\ BothOk
        /\ inp' = [inp EXCEPT !.w_west = inp'.w_west]
        /\ inp.h_west > inp.building_height
        /\ inp.w_west > 0 /\ inp'.w_west >= inp.w_west)
           => res'.theta_west <= res.theta_west

C5_Monotone == [][C5_MonotoneStep]_vars

\* Reached: a taller south obstruction gives a larger angle than a lower one
\* across the same street, and the same obstruction a smaller angle across a
\* wider street.
C5_Witness ==
    /\ Ok
    /\ inp.h_south = 12 + MaxRise /\ inp.w_south = 10
    /\ res.theta_south
           > calculate_theta(15, inp.building_height, inp.w_south)
    /\ calculate_theta(15, inp.building_height, inp.w_south) > 0
    /\ res.theta_south
           < calculate_theta(inp.h_south, inp.building_height, 1)
    /\ res.theta_south
           > calculate_theta(inp.h_south, inp.building_height, 12)

ScenarioA ==
    [length |-> 20, width |-> 15, num_floors |-> 4, building_height |-> 12,
     h_south |-> 15, w_south |-> 10, h_east |-> 10, w_east |-> 12,
     h_west |-> 10, w_west |-> 12]

\* Every run chains its steps: pv_utilization and pv_yield_density are the
\* formulas applied to the run's own sunhours_percent.
Chained ==
    Ok =>
        /\ res.sunhours_percent
               = sunhours_percent(res.theta_south, res.theta_east,
                                  res.theta_west)
        /\ res.pv_utilization
               = pv_utilization(res.sunhours_percent, res.rtfa_percent)
        /\ res.pv_yield_density
               = pv_yield_density(res.theta_south, res.sunhours_percent)

\* C7 (as claimed): Scenario A yields theta_south 16.699, theta_east =
\* theta_west = 0, rtfa_percent 25, sunhours_percent about 88.858,
\* pv_utilization about 48.66, pv_yield_density about 264.44 and
\* pv_roof_area 214.4 ("about": to within one unit of the last digit given).
C7_Original ==
    /\ Chained
    /\ inp = ScenarioA =>
           /\ Ok
           /\ Near(res.theta_south, 16699, 1)
           /\ res.theta_east = 0 /\ res.theta_west = 0
           /\ res.rtfa_percent = 2500000
           /\ Near(res.sunhours_percent, 8885800, 100)
           /\ Near(res.pv_utilization, 4866000, 1000)
           /\ Near(res.pv_yield_density, 26444000, 1000)
           /\ res.pv_roof_area = 2144

\* C7 (amended): the same, with pv_utilization about 47.86 and
\* pv_yield_density about 264.49.
C7_ScenarioA ==
    /\ Chained
    /\ inp = ScenarioA =>
           /\ Ok
           /\ Near(res.theta_south, 16699, 1)
           /\ res.theta_east = 0 /\ res.theta_west = 0
           /\ res.rtfa_percent = 2500000
           /\ Near(res.sunhours_percent, 8885800, 100)
           /\ Near(res.pv_utilization, 4786000, 1000)
           /\ Near(res.pv_yield_density, 26449000, 1000)
           /\ res.pv_roof_area = 2144

\* Reached: a run on Scenario A, with a shaded south side.
C7_Witness ==
    /\ inp = ScenarioA
    /\ Ok
    /\ res.theta_south > 0
    /\ res.pv_utilization
           = pv_utilization(res.sunhours_percent, res.rtfa_percent)

\* The gap, in half metres, between the main building's edge and the near
\* edge of each block, and the heights of the boxes.
GapSouth == SeqMin(res.main_bldg.y) - SeqMax(res.south_bldg.y)
GapEast == SeqMin(res.east_bldg.x) - SeqMax(res.main_bldg.x)
GapWest == SeqMin(res.main_bldg.x) - SeqMax(res.west_bldg.x)
BoxHeight(b) == SeqMax(b.z) - SeqMin(b.z)

\* The footprints of two boxes share no area.
Disjoint(a, b) ==
    \/ SeqMax(a.x) <= SeqMin(b.x) \/ SeqMax(b.x) <= SeqMin(a.x)
    \/ SeqMax(a.y) <= SeqMin(b.y) \/ SeqMax(b.y) <= SeqMin(a.y)

\* C8: in every run that draws, the main box is width x length about the
\* origin; each block stands its own street width from the facing edge, as
\* high as its obstruction, and theta of that orientation is the angle of
\* the drawn heights over the drawn gap; a block across a street of
\* positive width does not overlap the main footprint.
C8_BlocksMatchShading ==
    Ok =>
        /\ SeqMin(res.main_bldg.x) = -inp.width
        /\ SeqMax(res.main_bldg.x) = inp.width
        /\ SeqMin(res.main_bldg.y) = -inp.length
        /\ SeqMax(res.main_bldg.y) = inp.length
        /\ GapSouth = 2 * inp.w_south
        /\ GapEast = 2 * inp.w_east
        /\ GapWest = 2 * inp.w_west
        /\ BoxHeight(res.south_bldg) = inp.h_south
        /\ BoxHeight(res.east_bldg) = inp.h_east
        /\ BoxHeight(res.west_bldg) = inp.h_west
        /\ SeqMax(res.south_bldg.y) - SeqMin(res.south_bldg.y)
               = 2 * obs_depth
        /\ SeqMax(res.east_bldg.x) - SeqMin(res.east_bldg.x) = 2 * obs_depth
        /\ SeqMax(res.west_bldg.x) - SeqMin(res.west_bldg.x) = 2 * obs_depth
        /\ res.theta_south
               = calculate_theta(BoxHeight(res.south_bldg),
                                 BoxHeight(res.main_bldg), GapSouth \div 2)
        /\ res.theta_east
               = calculate_theta(BoxHeight(res.east_bldg),
                                 BoxHeight(res.main_bldg), GapEast \div 2)
        /\ res.theta_west
               = calculate_theta(BoxHeight(res.west_bldg),
                                 BoxHeight(res.main_bldg), GapWest \div 2)
        /\ inp.w_south > 0 => Disjoint(res.main_bldg, res.south_bldg)
        /\ inp.w_east > 0 => Disjoint(res.main_bldg, res.east_bldg)
        /\ inp.w_west > 0 => Disjoint(res.main_bldg, res.west_bldg)

\* Reached: three different street widths, three blocks at three different
\* gaps, none on the main footprint.
C8_Witness ==
    /\ Ok
    /\ inp.w_south = 10 /\ inp.w_east = 1 /\ inp.w_west = 12
    /\ GapSouth = 20 /\ GapEast = 2 /\ GapWest = 24
    /\ Disjoint(res.main_bldg, res.south_bldg)
    /\ Disjoint(res.main_bldg, res.east_bldg)
    /\ Disjoint(res.main_bldg, res.west_bldg)

====
